---- MODULE Spec2Model ----
(***************************************************************************)
(* Model of the production_project REST backend: the Express router, the   *)
(* (unmounted) JWT middleware, and the employee / department / service-    *)
(* order controllers, each of which runs a handful of SQL statements       *)
(* against a pooled MySQL connection, most of them inside a transaction.   *)
(*                                                                         *)
(* The database is a record of tables (sets of rows).  A handler is an     *)
(* operator from the committed database, the request and a fault point to  *)
(* a result [db, seq, status, msg, log]: it works on a private copy `tx`   *)
(* of the tables, `commit` publishes the copy and `rollback` drops it.     *)
(* A fault point names the awaited database call that rejects (throws).    *)
(* AUTO_INCREMENT counters (`seq`) are not restored by a rollback.         *)
(***************************************************************************)
EXTENDS Integers, Sequences, FiniteSets, TLC

VARIABLES db, seq, last, pool, inflight, schema

vars == <<db, seq, last, pool, inflight, schema>>

(*************************** bounds of the model ***************************)
\* highest service_orders.id the AUTO_INCREMENT counter may hand out
MaxOrders == 2
\* highest os_departments.id the AUTO_INCREMENT counter may hand out
MaxOsDepts == 2
\* highest departments.id / employees.id the counters may hand out
MaxDepartments == 2
MaxEmployees == 1
\* longest `departments` array of a request body
MaxDepts == 2
\* in how many fields a department entry of a request may depart from a valid one
MaxDeviations == 1
\* longest `service_days` array of the requests that exercise the day checks
MaxDays == 3
\* connections of the pool (the N of a pool that blocks when exhausted); as
\* many requests run concurrently
PoolSize == 2

(***************************** small helpers *******************************)
Range(s) == {s[i] : i \in 1..Len(s)}

SeqsUpTo(S, n) == UNION {[1..m -> S] : m \in 0..n}

\* a missing body field / SQL NULL
NULL == "NULL"

(******************************* database **********************************)
EmptyDb ==
    [departments          |-> {},   \* [id, name, production_order]
     employees            |-> {},   \* [id, username]
     employee_departments |-> {},   \* [employee_id, department_id]
     service_orders       |-> {},   \* [id, os_number]
     os_service_days      |-> {},   \* [os_id, day_of_week]
     os_departments       |-> {},   \* [id, os_id, department_id, execution_start, execution_end]
     os_collaborators     |-> {}]   \* [os_department_id, collaborator_id]

EmptySeq ==
    [departments |-> 0, employees |-> 0, service_orders |-> 0, os_departments |-> 0]

\* a fault point: the database call `at` (of loop round k) rejects
NoFault == [at |-> "none", k |-> 0]

Throws(fail, at, k) == fail.at = at /\ fail.k = k

(************************ a handler's running context **********************)
\* db: committed tables; tx: the connection's view inside its transaction;
\* status = 0 while the handler has not answered yet.
\* inTx: the connection has an open transaction; sent: responses sent so far.
\* acquired / released: connections obtained from, and given back to, the
\* pool; txAtRelease: a connection was given back with its transaction open.
\* insertedDays: the days in the VALUES list of INSERT INTO os_service_days.
Begin(d, s) ==
    [db |-> d, tx |-> d, seq |-> s, status |-> 0, msg |-> "", log |-> <<>>,
     inTx |-> FALSE, sent |-> 0, acquired |-> 0, released |-> 0,
     txAtRelease |-> FALSE, insertedDays |-> <<>>]

\* pool.getConnection() resolved
getConnection(c) == [c EXCEPT !.acquired = @ + 1]

\* connection.release(): the connection goes back to the pool as it is
release(c) == [c EXCEPT !.released = @ + 1, !.txAtRelease = @ \/ c.inTx]

Logged(c, e) == [c EXCEPT !.log = Append(@, e)]

\* res.status(..).json(..): the first response sent is the one the client gets
Respond(c, status, msg) ==
    IF c.sent = 0 THEN [c EXCEPT !.status = status, !.msg = msg, !.sent = 1]
    ELSE [c EXCEPT !.sent = @ + 1]

(***************************** transactions ********************************)
\* connection.commit(): the transaction's writes become the committed tables
commit(c) == Logged([c EXCEPT !.db = c.tx, !.inTx = FALSE], "commit")

\* connection.rollback(): the transaction's writes are dropped (a no-op when
\* nothing is pending, e.g. after the commit)
rollback(c) == Logged([c EXCEPT !.tx = c.db, !.inTx = FALSE], "rollback")

\* beginTransaction with the call left out: no transaction is opened
beginTransaction_omitted(c) == Logged(c, "beginTransaction")

\* connection.beginTransaction()
beginTransaction(c) == Logged([c EXCEPT !.inTx = TRUE], "beginTransaction")

\* Write for a statement sent through the pool instead of the transaction's
\* connection: it is committed at once
Write_throughPool(c, table, rows) ==
    [c EXCEPT !.tx[table] = rows, !.db[table] = rows]

\* a statement's write to one table: pending inside a transaction,
\* committed at once (autocommit) outside one
Write(c, table, rows) ==
    IF c.inTx THEN [c EXCEPT !.tx[table] = rows]
    ELSE [c EXCEPT !.tx[table] = rows, !.db[table] = rows]

InsertRows(c, table, rows) ==
    Logged(Write(c, table, c.tx[table] \cup rows), "INSERT " \o table)

DeleteRows(c, table, rows) ==
    Logged(Write(c, table, c.tx[table] \ rows), "DELETE " \o table)

\* UPDATE: `rows` is the table after the statement
UpdateRows(c, table, rows) ==
    Logged(Write(c, table, rows), "UPDATE " \o table)

\* the next AUTO_INCREMENT value of a table, and the counter moved past n rows
NextId(c, table) == c.seq[table] + 1

Allocated(c, table, n) == [c EXCEPT !.seq[table] = @ + n]

(*************************** os.controller.ts ******************************)
Digits == {"0", "1", "2", "3", "4", "5", "6", "7", "8", "9"}

\* isValidTime with the hour pattern 2[0-4]
isValidTime_hour24(time) ==
    /\ Len(time) = 5
    /\ \/ time[1] \in {"0", "1"} /\ time[2] \in Digits
       \/ time[1] = "2" /\ time[2] \in {"0", "1", "2", "3", "4"}
    /\ time[3] = ":"
    /\ time[4] \in {"0", "1", "2", "3", "4", "5"}
    /\ time[5] \in Digits

\* /^([01]\d|2[0-3]):([0-5]\d)$/ over a string given as its characters
isValidTime(time) ==
    /\ Len(time) = 5
    /\ \/ time[1] \in {"0", "1"} /\ time[2] \in Digits
       \/ time[1] = "2" /\ time[2] \in {"0", "1", "2", "3"}
    /\ time[3] = ":"
    /\ time[4] \in {"0", "1", "2", "3", "4", "5"}
    /\ time[5] \in Digits

\* UniqueOf with the duplicates left in
UniqueOf_keepDuplicates(days) == days

\* line 53, [...new Set(service_days)]: the first occurrence of each value, in
\* the order of the list
RECURSIVE UniqueOf(_)
UniqueOf(days) ==
    IF days = <<>> THEN <<>>
    ELSE LET front == UniqueOf(SubSeq(days, 1, Len(days) - 1))
             day == days[Len(days)]
         IN IF day \in Range(front) THEN front ELSE Append(front, day)

\* SELECT id FROM employees WHERE id IN (ids): one row per matching employee
ExistingCollabs(c, ids) == {e \in c.tx.employees : e.id \in Range(ids)}

\* the catch block of the inner try: rollback, then 500
Caught(c, msg) == Respond(rollback(c), 500, msg)

\* a validation failure inside the transaction: rollback, then the status
Rejected(c, status, msg) == Respond(rollback(c), status, msg)

\* InsertCollaborators with the INSERT moved before the existence check
InsertCollaborators_insertFirst(c, dept, insertId, k, fail) ==
    IF Len(dept.collaborator_ids) = 0 THEN c
    ELSE IF Throws(fail, "INSERT os_collaborators", k) \/ Throws(fail, "SELECT employees", k)
    THEN Caught(c, "Erro ao criar ordem de servico")
    ELSE
      LET c1 == Logged(InsertRows(c, "os_collaborators",
                         {[os_department_id |-> insertId, collaborator_id |-> cId] :
                            cId \in Range(dept.collaborator_ids)}),
                       "check collaborators")
      IN
      IF Cardinality(ExistingCollabs(c1, dept.collaborator_ids))
            # Len(dept.collaborator_ids)
      THEN Rejected(c1, 400, "Colaborador(es) invalido(s)")
      ELSE c1

\* lines 109-126: validate, then insert, the collaborators of one department
InsertCollaborators(c, dept, insertId, k, fail) ==
    IF Len(dept.collaborator_ids) = 0 THEN c
    ELSE IF Throws(fail, "SELECT employees", k)
    THEN Caught(c, "Erro ao criar ordem de servico")
    ELSE
      LET c1 == Logged(c, "check collaborators")
      IN
      IF Cardinality(ExistingCollabs(c1, dept.collaborator_ids))
            # Len(dept.collaborator_ids)
      THEN Rejected(c1, 400, "Colaborador(es) invalido(s)")
      ELSE IF Throws(fail, "INSERT os_collaborators", k)
      THEN Caught(c1, "Erro ao criar ordem de servico")
      ELSE InsertRows(c1, "os_collaborators",
             {[os_department_id |-> insertId, collaborator_id |-> cId] :
                cId \in Range(dept.collaborator_ids)})

\* lines 94-127: the loop over the request's departments, from round k on
RECURSIVE ProcessDepartments(_, _, _, _, _)
ProcessDepartments(c, departments, k, osId, fail) ==
    IF k > Len(departments) THEN c
    ELSE
      LET dept == departments[k]
          c1   == Logged(c, "check time")
      IN
      IF ~isValidTime(dept.execution_start) \/ ~isValidTime(dept.execution_end)
      THEN Rejected(c1, 400, "Formato de horario invalido")
      ELSE IF Throws(fail, "INSERT os_departments", k)
      THEN Caught(c1, "Erro ao criar ordem de servico")
      ELSE
        LET insertId == NextId(c1, "os_departments")
            c2 == InsertRows(Allocated(c1, "os_departments", 1), "os_departments",
                    {[id |-> insertId, os_id |-> osId,
                      department_id |-> dept.department_id,
                      execution_start |-> dept.execution_start,
                      execution_end |-> dept.execution_end]})
            c3 == InsertCollaborators(c2, dept, insertId, k, fail)
        IN
        IF c3.status # 0 THEN c3
        ELSE ProcessDepartments(c3, departments, k + 1, osId, fail)

\* getOSDetails: a second pooled connection, four SELECTs (one of which may
\* reject) and the release in its finally block; it reads only, so all that
\* matters to the caller is whether it rejects
getOSDetails(c, osId, fail) ==
    IF Throws(fail, "getOSDetails", 0)
    THEN Logged(release(getConnection(c)), "getOSDetails throws")
    ELSE Logged(release(getConnection(c)), "getOSDetails")

\* lines 56-147: everything from pool.getConnection() on
CreateInTransaction(c0, req, fail) ==
    LET conn0 == getConnection(c0)
    IN
    IF Throws(fail, "getConnection", 0)
    THEN Respond(c0, 500, "Erro de conexao com o banco")
    ELSE release(
      IF Throws(fail, "beginTransaction", 0)
      THEN Caught(conn0, "Erro ao criar ordem de servico")
      ELSE
        LET c1 == Logged(beginTransaction(conn0), "check departments")
        IN
        IF Len(req.departments) = 0
        THEN Rejected(c1, 400, "Pelo menos um departamento e necessario")
        ELSE IF Throws(fail, "SELECT service_orders", 0)
        THEN Caught(c1, "Erro ao criar ordem de servico")
        ELSE
          LET c2 == Logged(c1, "check os_number")
          IN
          IF \E o \in c2.tx.service_orders : o.os_number = req.os_number
          THEN Rejected(c2, 409, "Numero de OS ja existe")
          ELSE IF Throws(fail, "INSERT service_orders", 0)
          THEN Caught(c2, "Erro ao criar ordem de servico")
          ELSE
            LET osId == NextId(c2, "service_orders")
                c3 == InsertRows(Allocated(c2, "service_orders", 1), "service_orders",
                        {[id |-> osId, os_number |-> req.os_number]})
            IN
            IF Throws(fail, "INSERT os_service_days", 0)
            THEN Caught(c3, "Erro ao criar ordem de servico")
            ELSE
              LET uniqueDays == UniqueOf(req.service_days)
                  c4 == InsertRows([c3 EXCEPT !.insertedDays = uniqueDays],
                          "os_service_days",
                          {[os_id |-> osId, day_of_week |-> uniqueDays[i]] :
                             i \in 1..Len(uniqueDays)})
                  c5 == ProcessDepartments(c4, req.departments, 1, osId, fail)
              IN
              IF c5.status # 0 THEN c5
              ELSE IF Throws(fail, "commit", 0)
              THEN Caught(c5, "Erro ao criar ordem de servico")
              ELSE
                LET c6 == getOSDetails(commit(c5), osId, fail)
                IN
                IF Throws(fail, "getOSDetails", 0)
                THEN Caught(c6, "Erro ao criar ordem de servico")
                ELSE Respond(c6, 201, "created"))

\* createServiceOrder of os.controller.ts (the one the current router mounts)
createServiceOrder(d, s, req, fail) ==
    LET c0 == Logged(Begin(d, s), "check body")
    IN
    IF req.os_number = "" \/ Len(req.service_days) = 0
    THEN Respond(c0, 400, "Numero da OS e dias de servico sao obrigatorios")
    ELSE IF \E i \in 1..Len(req.service_days) :
                req.service_days[i] < 0 \/ req.service_days[i] > 6
    THEN Respond(c0, 400, "Dias de servico devem estar entre 0 e 6")
    ELSE CreateInTransaction(c0, req, fail)

(*********************** serviceOrders.controller.ts ***********************)
\* The earlier controller, written against an os_departments table without
\* time windows: its rows carry NULL in execution_start / execution_end.
OsDepartmentRow(id, osId, departmentId) ==
    [id |-> id, os_id |-> osId, department_id |-> departmentId,
     execution_start |-> NULL, execution_end |-> NULL]

\* rows (osId, ids[i]) numbered from the table's next AUTO_INCREMENT value
OsDepartmentRows(c, osId, ids) ==
    {OsDepartmentRow(c.seq.os_departments + i, osId, ids[i]) : i \in 1..Len(ids)}

\* createServiceOrder of serviceOrders.controller.ts (lines 13-117)
serviceOrders_createServiceOrder(d, s, req, fail) ==
    LET c0 == Logged(Begin(d, s), "check body")
        departmentIds == [i \in 1..Len(req.departments) |-> req.departments[i].department_id]
        conn0 == getConnection(c0)
    IN
    IF req.os_number = ""
    THEN Respond(c0, 400, "Numero da OS e obrigatorio")
    ELSE IF Throws(fail, "getConnection", 0)
    THEN Respond(c0, 500, "Erro de conexao com o banco")
    ELSE release(
      IF Throws(fail, "beginTransaction", 0)
      THEN Caught(conn0, "Erro ao criar ordem de servico")
      ELSE IF Len(departmentIds) > 0 /\ Throws(fail, "SELECT departments", 0)
      THEN Caught(beginTransaction(conn0), "Erro ao criar ordem de servico")
      ELSE
        LET c1 == IF Len(departmentIds) > 0
                  THEN Logged(beginTransaction(conn0), "check departments")
                  ELSE beginTransaction(conn0)
            existingIds == {x.id : x \in c1.tx.departments}
            invalidIds == {id \in Range(departmentIds) : id \notin existingIds}
        IN
        IF invalidIds # {}
        THEN Rejected(c1, 400, "Departamentos invalidos")
        ELSE IF Throws(fail, "INSERT service_orders", 0)
        THEN Caught(c1, "Erro ao criar ordem de servico")
        ELSE IF \E o \in c1.tx.service_orders : o.os_number = req.os_number
        THEN \* ER_DUP_ENTRY from the unique index the catch block answers for
             Respond(rollback(c1), 409, "Numero de OS ja existe")
        ELSE
          LET osId == NextId(c1, "service_orders")
              c2 == InsertRows(Allocated(c1, "service_orders", 1), "service_orders",
                      {[id |-> osId, os_number |-> req.os_number]})
          IN
          IF Len(departmentIds) > 0 /\ Throws(fail, "INSERT os_departments", 0)
          THEN Caught(c2, "Erro ao criar ordem de servico")
          ELSE
            LET c3 == IF Len(departmentIds) > 0
                      THEN InsertRows(Allocated(c2, "os_departments", Len(departmentIds)),
                             "os_departments", OsDepartmentRows(c2, osId, departmentIds))
                      ELSE c2
            IN
            IF Throws(fail, "commit", 0)
            THEN Caught(c3, "Erro ao criar ordem de servico")
            ELSE IF Throws(fail, "SELECT os_departments", 0)
            THEN Caught(commit(c3), "Erro ao criar ordem de servico")
            ELSE Respond(commit(c3), 201, "created"))

\* updateServiceOrder (lines 148-192).  req.os_number = "" stands for a body
\* with no field besides `departments`; req.has_departments tells whether the
\* body has a `departments` array (req.departments, possibly empty).
updateServiceOrder(d, s, id, req, fail) ==
    LET c0 == Begin(d, s)
        Failed(c) == Respond(rollback(c), 500, "Erro ao atualizar ordem de servico")
        conn0 == getConnection(c0)
    IN
    IF Throws(fail, "getConnection", 0)
    THEN Respond(c0, 500, "Erro ao atualizar ordem de servico")
    ELSE release(
      IF Throws(fail, "beginTransaction", 0)
      THEN Failed(conn0)
      ELSE
        LET c1 == beginTransaction(conn0)
            duplicate == \E o \in c1.tx.service_orders :
                            o.id # id /\ o.os_number = req.os_number
                            /\ \E m \in c1.tx.service_orders : m.id = id
        IN
        IF req.os_number # "" /\ (Throws(fail, "UPDATE service_orders", 0) \/ duplicate)
        THEN Failed(c1)
        ELSE
          LET c2 == IF req.os_number # ""
                    THEN UpdateRows(c1, "service_orders",
                           {IF o.id = id THEN [o EXCEPT !.os_number = req.os_number] ELSE o
                              : o \in c1.tx.service_orders})
                    ELSE c1
          IN
          IF ~req.has_departments
          THEN IF Throws(fail, "commit", 0) THEN Failed(c2)
               ELSE Respond(commit(c2), 200, "Ordem de servico atualizada")
          ELSE IF Throws(fail, "DELETE os_departments", 0)
          THEN Failed(c2)
          ELSE
            LET c3 == DeleteRows(c2, "os_departments",
                        {r \in c2.tx.os_departments : r.os_id = id})
            IN
            IF Len(req.departments) > 0 /\ Throws(fail, "INSERT os_departments", 0)
            THEN Failed(c3)
            ELSE
              LET c4 == IF Len(req.departments) > 0
                        THEN InsertRows(Allocated(c3, "os_departments", Len(req.departments)),
                               "os_departments", OsDepartmentRows(c3, id, req.departments))
                        ELSE c3
              IN
              IF Throws(fail, "commit", 0) THEN Failed(c4)
              ELSE Respond(commit(c4), 200, "Ordem de servico atualizada"))

\* deleteServiceOrder of serviceOrders.controller.ts (lines 194-217)
serviceOrders_deleteServiceOrder(d, s, id, fail) ==
    LET c0 == Begin(d, s)
        Failed(c) == Respond(rollback(c), 500, "Erro ao excluir ordem de servico")
        conn0 == getConnection(c0)
    IN
    IF Throws(fail, "getConnection", 0)
    THEN Respond(c0, 500, "Erro ao excluir ordem de servico")
    ELSE release(
      IF Throws(fail, "beginTransaction", 0)
      THEN Failed(conn0)
      ELSE IF Throws(fail, "DELETE os_departments", 0)
      THEN Failed(beginTransaction(conn0))
      ELSE
        LET c1 == DeleteRows(beginTransaction(conn0), "os_departments",
                    {r \in d.os_departments : r.os_id = id})
        IN
        IF Throws(fail, "DELETE service_orders", 0)
        THEN Failed(c1)
        ELSE
          LET c2 == DeleteRows(c1, "service_orders",
                      {o \in c1.tx.service_orders : o.id = id})
          IN
          IF Throws(fail, "commit", 0) THEN Failed(c2)
          ELSE Respond(commit(c2), 204, ""))

(************************ os.controller.ts, continued **********************)
\* DeleteCollaborators with the statement left out
DeleteCollaborators_skipped(c, departmentIds) == c

\* lines 221-227: the collaborators of the order's os_departments rows
DeleteCollaborators(c, departmentIds) ==
    IF departmentIds # {}
    THEN DeleteRows(c, "os_collaborators",
           {x \in c.tx.os_collaborators : x.os_department_id \in departmentIds})
    ELSE c

\* deleteServiceOrder of os.controller.ts (lines 193-264); id is the parsed
\* integer (a non-numeric id is answered 400 before any database call)
deleteServiceOrder(d, s, id, fail) ==
    LET c0 == Begin(d, s)
        Failed(c) == Caught(c, "Erro ao deletar ordem de servico")
        conn0 == getConnection(c0)
    IN
    IF Throws(fail, "getConnection", 0)
    THEN Respond(c0, 500, "Erro de conexao com o banco")
    ELSE release(
      IF Throws(fail, "beginTransaction", 0)
      THEN Failed(conn0)
      ELSE IF Throws(fail, "SELECT service_orders", 0)
      THEN Failed(beginTransaction(conn0))
      ELSE
        LET c1 == beginTransaction(conn0)
        IN
        IF ~\E o \in c1.tx.service_orders : o.id = id
        THEN Rejected(c1, 404, "Ordem de servico nao encontrada")
        ELSE IF Throws(fail, "SELECT os_departments", 0)
        THEN Failed(c1)
        ELSE
          LET departmentIds == {r.id : r \in {x \in c1.tx.os_departments : x.os_id = id}}
          IN
          IF departmentIds # {} /\ Throws(fail, "DELETE os_collaborators", 0)
          THEN Failed(c1)
          ELSE
            LET c2 == DeleteCollaborators(c1, departmentIds)
            IN
            IF Throws(fail, "DELETE os_departments", 0)
            THEN Failed(c2)
            ELSE
              LET c3 == DeleteRows(c2, "os_departments",
                          {x \in c2.tx.os_departments : x.os_id = id})
              IN
              IF Throws(fail, "DELETE os_service_days", 0)
              THEN Failed(c3)
              ELSE
                LET c4 == DeleteRows(c3, "os_service_days",
                            {x \in c3.tx.os_service_days : x.os_id = id})
                IN
                IF Throws(fail, "DELETE service_orders", 0)
                THEN Failed(c4)
                ELSE
                  LET c5 == DeleteRows(c4, "service_orders",
                              {o \in c4.tx.service_orders : o.id = id})
                  IN
                  IF Throws(fail, "commit", 0) THEN Failed(c5)
                  ELSE Respond(commit(c5), 200, "Ordem de servico deletada com sucesso"))

(************************ departments.controller.ts ************************)
\* next(error): Express' default error handler answers 500
next(c) == Respond(Logged(c, "next(error)"), 500, "Internal Server Error")

\* createDepartment (part_001 lines 662-723); name = "" stands for a body
\* with a required field missing (name or production_order)
createDepartment(d, s, req, fail) ==
    LET c0 == Begin(d, s)
        Failed(c) == Respond(next(rollback(c)), 500, "Erro ao criar departamento")
        conn0 == getConnection(c0)
    IN
    IF req.name = ""
    THEN Respond(c0, 400, "Nome e ordem de producao sao obrigatorios")
    ELSE IF Throws(fail, "getConnection", 0)
    THEN Respond(c0, 500, "Erro ao obter conexao do banco")
    ELSE release(
      IF Throws(fail, "beginTransaction", 0)
      THEN Failed(conn0)
      ELSE IF Throws(fail, "SELECT departments", 0)
      THEN Failed(beginTransaction(conn0))
      ELSE
        LET c1 == Logged(beginTransaction(conn0), "check name")
            existing == {x \in c1.tx.departments : x.name = req.name}
        IN
        IF existing # {}
        THEN Respond(c1, 409, "Conflito em: nome")
        ELSE IF Throws(fail, "INSERT departments", 0)
        THEN Failed(c1)
        ELSE
          LET c2 == InsertRows(Allocated(c1, "departments", 1), "departments",
                      {[id |-> NextId(c1, "departments"), name |-> req.name,
                        production_order |-> req.production_order]})
          IN
          IF Throws(fail, "commit", 0) THEN Failed(c2)
          ELSE Respond(commit(c2), 201, "created"))

\* updateDepartment (part_001 lines 798-849)
updateDepartment(d, s, id, req, fail) ==
    LET c0 == Begin(d, s)
        Failed(c) == Respond(rollback(c), 500, "Erro ao atualizar departamento")
        conn0 == getConnection(c0)
    IN
    IF Throws(fail, "getConnection", 0)
    THEN Respond(c0, 500, "Erro ao atualizar departamento")
    ELSE release(
      IF Throws(fail, "beginTransaction", 0)
      THEN Failed(conn0)
      ELSE IF Throws(fail, "SELECT departments", 0)
      THEN Failed(beginTransaction(conn0))
      ELSE
        LET c1 == Logged(beginTransaction(conn0), "check name and production_order")
            existing == {x \in c1.tx.departments :
                           /\ (x.name = req.name \/ x.production_order = req.production_order)
                           /\ x.id # id}
        IN
        IF existing # {}
        THEN Respond(c1, 409, "Conflito")
        ELSE IF Throws(fail, "UPDATE departments", 0)
        THEN Failed(c1)
        ELSE
          LET affectedRows == Cardinality({x \in c1.tx.departments : x.id = id})
              c2 == UpdateRows(c1, "departments",
                      {IF x.id = id
                       THEN [x EXCEPT !.name = req.name,
                                      !.production_order = req.production_order]
                       ELSE x : x \in c1.tx.departments})
          IN
          IF affectedRows = 0
          THEN Respond(c2, 404, "Departamento nao encontrado")
          ELSE IF Throws(fail, "commit", 0) THEN Failed(c2)
          ELSE Respond(commit(c2), 200, "Departamento atualizado com sucesso"))

\* deleteDepartment (part_001 lines 851-904)
deleteDepartment(d, s, id, fail) ==
    LET c0 == Begin(d, s)
        Failed(c) == Respond(rollback(c), 500, "Erro ao excluir departamento")
        conn0 == getConnection(c0)
    IN
    IF Throws(fail, "getConnection", 0)
    THEN Respond(c0, 500, "Erro ao excluir departamento")
    ELSE release(
      IF Throws(fail, "beginTransaction", 0)
      THEN Failed(conn0)
      ELSE IF Throws(fail, "SELECT employee_departments", 0)
              \/ Throws(fail, "SELECT os_departments", 0)
      THEN Failed(beginTransaction(conn0))
      ELSE
        LET c1 == Logged(beginTransaction(conn0), "check dependencies")
            employees == {x \in c1.tx.employee_departments : x.department_id = id}
            os == {x \in c1.tx.os_departments : x.department_id = id}
        IN
        IF employees # {} \/ os # {}
        THEN Rejected(c1, 400, "Departamento esta vinculado")
        ELSE IF Throws(fail, "DELETE departments", 0)
        THEN Failed(c1)
        ELSE
          LET affectedRows == Cardinality({x \in c1.tx.departments : x.id = id})
              c2 == DeleteRows(c1, "departments", {x \in c1.tx.departments : x.id = id})
          IN
          IF affectedRows = 0
          THEN Rejected(c2, 404, "Departamento nao encontrado")
          ELSE IF Throws(fail, "commit", 0) THEN Failed(c2)
          ELSE Respond(commit(c2), 204, ""))

(************************* employees.controller.ts *************************)
\* ids.join(', ')
RECURSIVE JoinIds(_)
JoinIds(ids) ==
    IF ids = <<>> THEN ""
    ELSE IF Len(ids) = 1 THEN ToString(ids[1])
    ELSE ToString(ids[1]) \o ", " \o JoinIds(Tail(ids))

\* InvalidIds with the check left out: no id is reported
InvalidIds_unchecked(c, departments) == <<>>

\* the listed ids that SELECT id FROM departments WHERE id IN (?) does not
\* return, in the order of the list
InvalidIds(c, departments) ==
    LET existingIds == {x.id : x \in c.tx.departments}
    IN SelectSeq(departments, LAMBDA x : x \notin existingIds)

\* createEmployee (part_001 lines 15-134); the password and the work
\* schedule are present and valid, departments is the optional id list
createEmployee(d, s, req, fail) ==
    LET c0 == Begin(d, s)
        Failed(c) == Caught(c, "Erro ao processar solicitacao")
        conn0 == getConnection(c0)
    IN
    IF req.username = ""
    THEN Respond(c0, 400, "Dados obrigatorios faltando")
    ELSE IF Throws(fail, "getConnection", 0)
    THEN Respond(c0, 500, "Erro interno no servidor")
    ELSE release(
      IF Throws(fail, "beginTransaction", 0)
      THEN Failed(conn0)
      ELSE IF Len(req.departments) > 0 /\ Throws(fail, "SELECT departments", 0)
      THEN Failed(beginTransaction(conn0))
      ELSE
        LET c1 == IF Len(req.departments) > 0
                  THEN Logged(beginTransaction(conn0), "check departments")
                  ELSE beginTransaction(conn0)
            invalidIds == InvalidIds(c1, req.departments)
        IN
        IF invalidIds # <<>>
        THEN Rejected(c1, 400, "Departamentos invalidos: " \o JoinIds(invalidIds))
        ELSE IF Throws(fail, "INSERT employees", 0)
        THEN Failed(c1)
        ELSE IF \E e \in c1.tx.employees : e.username = req.username
        THEN \* ER_DUP_ENTRY from the unique index the catch block answers for
             Respond(rollback(c1), 409, "Username ja esta em uso")
        ELSE
          LET employeeId == NextId(c1, "employees")
              c2 == InsertRows(Allocated(c1, "employees", 1), "employees",
                      {[id |-> employeeId, username |-> req.username]})
          IN
          IF Len(req.departments) > 0 /\ Throws(fail, "INSERT employee_departments", 0)
          THEN Failed(c2)
          ELSE
            LET c3 == IF Len(req.departments) > 0
                      THEN InsertRows(c2, "employee_departments",
                             {[employee_id |-> employeeId, department_id |-> x] :
                                x \in Range(req.departments)})
                      ELSE c2
            IN
            IF Throws(fail, "SELECT employee_departments", 0) \/ Throws(fail, "commit", 0)
            THEN Failed(c3)
            ELSE Respond(commit(c3), 201, "created"))

\* updateEmployee (part_001 lines 454-515, and 165-238 with the same
\* structure).  req.username = "" stands for a body with no field besides
\* `departments`; req.has_departments tells whether the body has a
\* `departments` array.  beginTransaction is awaited before the inner
\* try/finally is entered.
updateEmployee(d, s, id, req, fail) ==
    LET c0 == Begin(d, s)
        conn0 == getConnection(c0)
        Failed(c, msg) == Respond(rollback(c), 500, msg)
    IN
    IF Throws(fail, "getConnection", 0)
    THEN Respond(c0, 500, "Erro ao atualizar colaborador")
    ELSE IF Throws(fail, "beginTransaction", 0)
    THEN Respond(conn0, 500, "Erro ao atualizar colaborador")
    ELSE release(
      LET c1 == beginTransaction(conn0)
          duplicate == \E e \in c1.tx.employees :
                          e.id # id /\ e.username = req.username
                          /\ \E m \in c1.tx.employees : m.id = id
      IN
      IF req.username # "" /\ (Throws(fail, "UPDATE employees", 0) \/ duplicate)
      THEN Failed(c1, "Erro ao atualizar colaborador")
      ELSE
        LET c2 == IF req.username # ""
                  THEN UpdateRows(c1, "employees",
                         {IF e.id = id THEN [e EXCEPT !.username = req.username] ELSE e
                            : e \in c1.tx.employees})
                  ELSE c1
        IN
        IF ~req.has_departments
        THEN IF Throws(fail, "commit", 0) THEN Failed(c2, "Erro ao atualizar colaborador")
             ELSE Respond(commit(c2), 200, "Colaborador atualizado com sucesso")
        ELSE IF Throws(fail, "DELETE employee_departments", 0)
        THEN Failed(c2, "Erro ao atualizar colaborador")
        ELSE
          LET c3 == DeleteRows(c2, "employee_departments",
                      {r \in c2.tx.employee_departments : r.employee_id = id})
              validDepartments == {x \in c3.tx.departments : x.id \in Range(req.departments)}
          IN
          IF Len(req.departments) = 0
          THEN IF Throws(fail, "commit", 0) THEN Failed(c3, "Erro ao atualizar colaborador")
               ELSE Respond(commit(c3), 200, "Colaborador atualizado com sucesso")
          ELSE IF Throws(fail, "SELECT departments", 0)
          THEN Failed(c3, "Erro ao atualizar colaborador")
          ELSE IF Cardinality(validDepartments) # Len(req.departments)
          THEN Failed(Logged(c3, "check departments"), "Departamentos invalidos")
          ELSE IF Throws(fail, "INSERT employee_departments", 0)
          THEN Failed(c3, "Erro ao atualizar colaborador")
          ELSE
            LET c4 == InsertRows(Logged(c3, "check departments"), "employee_departments",
                        {[employee_id |-> id, department_id |-> x] :
                           x \in Range(req.departments)})
            IN
            IF Throws(fail, "commit", 0) THEN Failed(c4, "Erro ao atualizar colaborador")
            ELSE Respond(commit(c4), 200, "Colaborador atualizado com sucesso"))

\* deleteEmployee (part_001 lines 517-528, and 240-251, the same code): two
\* statements sent through the pool, each committed when it returns
deleteEmployee(d, s, id, fail) ==
    LET c0 == Begin(d, s)
    IN
    IF Throws(fail, "DELETE employee_departments", 0)
    THEN Respond(c0, 500, "Erro ao excluir colaborador")
    ELSE
      LET c1 == DeleteRows(c0, "employee_departments",
                  {r \in c0.tx.employee_departments : r.employee_id = id})
      IN
      IF Throws(fail, "DELETE employees", 0)
      THEN Respond(c1, 500, "Erro ao excluir colaborador")
      ELSE Respond(DeleteRows(c1, "employees",
                     {e \in c1.tx.employees : e.id = id}), 204, "")

(************************ auth.middleware.ts, routes ***********************)
\* the Authorization header of a request: absent, a bad token, a good token
Tokens == {"none", "invalid", "valid"}

\* authMiddleware (part_000 lines 4-23): 401 unless jwt.verify accepts
authMiddleware(tok) ==
    IF tok = "none" THEN [status |-> 401, msg |-> "Acesso nao autorizado"]
    ELSE IF tok = "invalid" THEN [status |-> 401, msg |-> "Token invalido"]
    ELSE [status |-> 0, msg |-> "next"]

\* the router (part_000 lines 56-83): the handlers each route registers, in
\* order; the service-order routes mount os.controller's create and delete
router ==
    [createEmployee     |-> <<"createEmployee">>,        \* POST   /employee
     updateEmployee     |-> <<"updateEmployee">>,        \* PUT    /employee/:id
     deleteEmployee     |-> <<"deleteEmployee">>,        \* DELETE /employee/:id
     createServiceOrder |-> <<"createServiceOrder">>,    \* POST   /service-orders
     updateServiceOrder |-> <<"updateServiceOrder">>,    \* PUT    /service-orders/:id
     deleteServiceOrder |-> <<"deleteServiceOrder">>,    \* DELETE /service-orders/:id
     createDepartment   |-> <<"createDepartment">>,      \* POST   /departments
     updateDepartment   |-> <<"updateDepartment">>,      \* PUT    /departments/:id
     deleteDepartment   |-> <<"deleteDepartment">>,      \* DELETE /departments/:id
     \* src/routes/index.ts lines 30-33, the earlier router
     serviceOrders_createServiceOrder |-> <<"serviceOrders_createServiceOrder">>,
     serviceOrders_deleteServiceOrder |-> <<"serviceOrders_deleteServiceOrder">>]

\* app.js lines 8-10: what every request passes before the router
app == <<"cors", "express.json">>

\* Express runs the middleware, then the route's handlers, in order; `ctrl` is
\* what the controller does when it is reached.  reached: the controller ran.
RECURSIVE RunChain(_, _, _, _, _)
RunChain(chain, i, tok, idle, ctrl) ==
    IF i > Len(chain) THEN Respond(idle, 404, "Not Found") @@ [reached |-> FALSE]
    ELSE IF chain[i] \in {"cors", "express.json"}
    THEN RunChain(chain, i + 1, tok, idle, ctrl)
    ELSE IF chain[i] = "authMiddleware"
    THEN IF authMiddleware(tok).status = 0
         THEN RunChain(chain, i + 1, tok, idle, ctrl)
         ELSE Respond(idle, 401, authMiddleware(tok).msg) @@ [reached |-> FALSE]
    ELSE ctrl @@ [reached |-> TRUE]

Dispatch(route, tok, ctrl) ==
    RunChain(app \o router[route], 1, tok, Begin(db, seq), ctrl)

(******************************* requests **********************************)
T0800 == <<"0", "8", ":", "0", "0">>
T2400 == <<"2", "4", ":", "0", "0">>

OsNumbers == {"", "OS-1", "OS-2"}
DayLists == {<<>>, <<1>>, <<1, 1>>, <<7>>}
Times == {T0800, T2400}
CollabLists == {<<>>, <<1>>, <<1, 1>>, <<2>>}
DepartmentIds == {1, 2}
OrderIds == 1..MaxOrders

\* a department entry no check rejects (once department 1 and employee 1 exist)
ValidEntry ==
    [department_id |-> 1, execution_start |-> T0800, execution_end |-> T0800,
     collaborator_ids |-> <<1>>]

Deviations(e) ==
    Cardinality({f \in {"department_id", "execution_start", "execution_end",
                        "collaborator_ids"} : e[f] # ValidEntry[f]})

\* the entries that depart from ValidEntry in at most MaxDeviations fields
DeptEntries ==
    {e \in [department_id : DepartmentIds, execution_start : Times,
            execution_end : Times, collaborator_ids : CollabLists] :
       Deviations(e) <= MaxDeviations}

\* bodies of POST /service-orders for os.controller; a body the first checks
\* reject is sent without departments
CreateRequests ==
    {r \in [os_number : OsNumbers, service_days : DayLists,
            departments : SeqsUpTo(DeptEntries, MaxDepts)] :
       (r.os_number = "" \/ r.service_days # <<1>>) => r.departments = <<>>}

\* bodies of POST /service-orders for serviceOrders.controller, which reads
\* os_number and each department's department_id
EarlierCreateRequests ==
    [os_number : OsNumbers,
     departments : SeqsUpTo([department_id : DepartmentIds], MaxDepts)]

UpdateRequests ==
    {r \in [os_number : {"", "OS-2"}, has_departments : BOOLEAN,
            departments : SeqsUpTo(DepartmentIds, MaxDepts)] :
       ~r.has_departments => r.departments = <<>>}

DepartmentRequests ==
    [name : {"", "A", "B"}, production_order : {1, 2}]

EmployeeIds == {1, 2}

\* bodies of POST /employee: username, password and work schedule (present
\* and valid unless username = ""), and the optional list of department ids
EmployeeRequests ==
    [username : {"", "u1"}, departments : SeqsUpTo(DepartmentIds, MaxDepts)]

UpdateEmployeeRequests ==
    {r \in [username : {"", "u2"}, has_departments : BOOLEAN,
            departments : SeqsUpTo(DepartmentIds, MaxDepts)] :
       ~r.has_departments => r.departments = <<>>}

Faults(ats) == {[at |-> a, k |-> 0] : a \in ats}

LoopFaults(ats) == {[at |-> a, k |-> k] : a \in ats, k \in 1..MaxDepts}

\* the runs of a handler: every request with no fault, and every fault
\* injected into the requests of `nominal` (requests no check rejects)
Runs(reqs, nominal, faults) ==
    {[req |-> r, fail |-> NoFault] : r \in reqs}
      \cup {[req |-> r, fail |-> f] : r \in nominal, f \in faults}

(******************************** actions **********************************)
WithinBounds(r) ==
    /\ r.seq.service_orders <= MaxOrders
    /\ r.seq.os_departments <= MaxOsDepts
    /\ r.seq.departments <= MaxDepartments
    /\ r.seq.employees <= MaxEmployees

Idle ==
    [op |-> "none", tok |-> "none", id |-> 0, req |-> NULL,
     status |-> 0, msg |-> "", log |-> <<>>,
     reached |-> FALSE, sent |-> 0, inTx |-> FALSE,
     acquired |-> 0, released |-> 0, txAtRelease |-> FALSE,
     insertedDays |-> <<>>,
     before |-> EmptyDb, seqBefore |-> EmptySeq]

\* one request, handled to its end: the tables and counters it leaves, and
\* a record of the request and its answer.  Requests run one at a time.
Handled(op, tok, id, req, r) ==
    /\ last = Idle
    /\ WithinBounds(r)
    /\ db' = r.db
    /\ seq' = r.seq
    /\ last' = [op |-> op, tok |-> tok, id |-> id, req |-> req,
                status |-> r.status, msg |-> r.msg, log |-> r.log,
                reached |-> r.reached, sent |-> r.sent, inTx |-> r.inTx,
                acquired |-> r.acquired, released |-> r.released,
                txAtRelease |-> r.txAtRelease, insertedDays |-> r.insertedDays,
                before |-> db, seqBefore |-> seq]
    /\ UNCHANGED <<pool, inflight, schema>>

\* the answer has been delivered: the server keeps no record of the request
Delivered ==
    /\ last # Idle
    /\ last' = Idle
    /\ UNCHANGED <<db, seq, pool, inflight, schema>>

\* the requests that run concurrently (the section on the pool below)
Clients == 1..PoolSize

\* a concurrent request that has not arrived yet
NotArrived ==
    [pc |-> "idle", os_number |-> "", conns |-> 0, status |-> 0, msg |-> "",
     pending |-> [service_orders |-> {}, os_service_days |-> {}, os_departments |-> {}]]

Init ==
    /\ db = EmptyDb
    /\ seq = EmptySeq
    /\ last = Idle
    /\ pool = PoolSize
    /\ inflight = [p \in Clients |-> NotArrived]
    /\ schema = [unique_os_number |-> TRUE]

\* the database calls of os.controller's createServiceOrder that may reject
CreateFaults ==
    Faults({"getConnection", "beginTransaction", "SELECT service_orders",
            "INSERT service_orders", "INSERT os_service_days", "commit",
            "getOSDetails"})
      \cup LoopFaults({"INSERT os_departments", "SELECT employees",
                       "INSERT os_collaborators"})

CreateServiceOrder(toks, reqs, faults) ==
    \E tok \in toks,
       run \in Runs(reqs,
                    {r \in reqs : /\ r.os_number # "" /\ r.service_days = <<1>>
                                  /\ r.departments # <<>>
                                  /\ \A i \in 1..Len(r.departments) :
                                        r.departments[i] = ValidEntry},
                    faults) :
      Handled("createServiceOrder", tok, 0, run.req,
              Dispatch("createServiceOrder", tok,
                       createServiceOrder(db, seq, run.req, run.fail)))

ServiceOrdersCreateServiceOrder(toks, reqs) ==
    \E tok \in toks,
       run \in Runs(reqs,
                    {r \in reqs : /\ r.os_number # ""
                                  /\ \A i \in 1..Len(r.departments) :
                                        r.departments[i].department_id = 1},
                    Faults({"getConnection", "beginTransaction", "SELECT departments",
                            "INSERT service_orders", "INSERT os_departments", "commit",
                            "SELECT os_departments"})) :
      Handled("serviceOrders_createServiceOrder", tok, 0, run.req,
              Dispatch("serviceOrders_createServiceOrder", tok,
                       serviceOrders_createServiceOrder(db, seq, run.req, run.fail)))

UpdateServiceOrder(toks, reqs) ==
    \E tok \in toks, id \in OrderIds,
       run \in Runs(reqs, reqs,
                    Faults({"getConnection", "beginTransaction", "UPDATE service_orders",
                            "DELETE os_departments", "INSERT os_departments", "commit"})) :
      Handled("updateServiceOrder", tok, id, run.req,
              Dispatch("updateServiceOrder", tok,
                       updateServiceOrder(db, seq, id, run.req, run.fail)))

DeleteServiceOrder(toks) ==
    \E tok \in toks, id \in OrderIds,
       fail \in {NoFault} \cup
                Faults({"getConnection", "beginTransaction", "SELECT service_orders",
                        "SELECT os_departments", "DELETE os_collaborators",
                        "DELETE os_departments", "DELETE os_service_days",
                        "DELETE service_orders", "commit"}) :
      Handled("deleteServiceOrder", tok, id, NULL,
              Dispatch("deleteServiceOrder", tok, deleteServiceOrder(db, seq, id, fail)))

ServiceOrdersDeleteServiceOrder(toks) ==
    \E tok \in toks, id \in OrderIds,
       fail \in {NoFault} \cup
                Faults({"getConnection", "beginTransaction", "DELETE os_departments",
                        "DELETE service_orders", "commit"}) :
      Handled("serviceOrders_deleteServiceOrder", tok, id, NULL,
              Dispatch("serviceOrders_deleteServiceOrder", tok,
                       serviceOrders_deleteServiceOrder(db, seq, id, fail)))

DepartmentFaults ==
    Faults({"getConnection", "beginTransaction", "SELECT departments",
            "INSERT departments", "commit"})

CreateDepartment(toks, reqs, faults) ==
    \E tok \in toks, run \in Runs(reqs, reqs, faults) :
      Handled("createDepartment", tok, 0, run.req,
              Dispatch("createDepartment", tok,
                       createDepartment(db, seq, run.req, run.fail)))

UpdateDepartment(toks, reqs) ==
    \E tok \in toks, id \in DepartmentIds,
       run \in Runs(reqs, reqs,
                    Faults({"getConnection", "beginTransaction", "SELECT departments",
                            "UPDATE departments", "commit"})) :
      Handled("updateDepartment", tok, id, run.req,
              Dispatch("updateDepartment", tok,
                       updateDepartment(db, seq, id, run.req, run.fail)))

DeleteDepartment(toks) ==
    \E tok \in toks, id \in DepartmentIds,
       fail \in {NoFault} \cup
                Faults({"getConnection", "beginTransaction", "SELECT os_departments",
                        "DELETE departments", "commit"}) :
      Handled("deleteDepartment", tok, id, NULL,
              Dispatch("deleteDepartment", tok, deleteDepartment(db, seq, id, fail)))

EmployeeFaults ==
    Faults({"getConnection", "beginTransaction", "SELECT departments",
            "INSERT employees", "INSERT employee_departments", "commit"})

CreateEmployee(toks, reqs, faults) ==
    \E tok \in toks, run \in Runs(reqs, reqs, faults) :
      Handled("createEmployee", tok, 0, run.req,
              Dispatch("createEmployee", tok, createEmployee(db, seq, run.req, run.fail)))

UpdateEmployeeFaults ==
    Faults({"getConnection", "beginTransaction", "UPDATE employees",
            "DELETE employee_departments", "SELECT departments",
            "INSERT employee_departments", "commit"})

UpdateEmployee(toks, reqs) ==
    \E tok \in toks, id \in EmployeeIds,
       run \in Runs(reqs, reqs, UpdateEmployeeFaults) :
      Handled("updateEmployee", tok, id, run.req,
              Dispatch("updateEmployee", tok,
                       updateEmployee(db, seq, id, run.req, run.fail)))

DeleteEmployee(toks) ==
    \E tok \in toks, id \in EmployeeIds,
       fail \in {NoFault} \cup
                Faults({"DELETE employee_departments", "DELETE employees"}) :
      Handled("deleteEmployee", tok, id, NULL,
              Dispatch("deleteEmployee", tok, deleteEmployee(db, seq, id, fail)))

(***************************** specifications ******************************)
TheDepartment == {[name |-> "A", production_order |-> 1]}
TheEmployee == {[username |-> "u1", departments |-> <<>>]}

\* bodies that create an order with one or two department entries that need
\* no collaborator
SimpleCreateRequests ==
    {r \in CreateRequests :
       /\ r.os_number # "" /\ r.service_days = <<1>> /\ r.departments # <<>>
       /\ \A i \in 1..Len(r.departments) :
             r.departments[i] = [ValidEntry EXCEPT !.collaborator_ids = <<>>]}

\* Service-order creation, driven by an authenticated client.  One department
\* ("A") and one employee ("u1") can be created, so that the other ids of
\* the requests refer to rows that do not exist.
Next ==
    \/ CreateDepartment({"valid"}, TheDepartment, {})
    \/ CreateEmployee({"valid"}, TheEmployee, {})
    \/ CreateServiceOrder({"valid"}, CreateRequests, CreateFaults)
    \/ ServiceOrdersCreateServiceOrder({"valid"}, EarlierCreateRequests)
    \/ Delivered

Spec == Init /\ [][Next]_vars

\* Service-order update and deletion, over orders created by simple requests
NextUpdate ==
    \/ CreateDepartment({"valid"}, TheDepartment, {})
    \/ CreateServiceOrder({"valid"}, SimpleCreateRequests, {})
    \/ UpdateServiceOrder({"valid"}, UpdateRequests)
    \/ DeleteServiceOrder({"valid"})
    \/ ServiceOrdersDeleteServiceOrder({"valid"})
    \/ DeleteDepartment({"valid"})
    \/ Delivered

SpecUpdate == Init /\ [][NextUpdate]_vars

\* Department management: two names, two production orders
NextDept ==
    \/ CreateDepartment({"valid"}, DepartmentRequests, DepartmentFaults)
    \/ UpdateDepartment({"valid"}, DepartmentRequests)
    \/ DeleteDepartment({"valid"})
    \/ Delivered

SpecDept == Init /\ [][NextDept]_vars

\* Requests with every kind of Authorization header, to one route of each
\* resource and more
NextAuth ==
    \/ CreateEmployee(Tokens, TheEmployee, {})
    \/ CreateDepartment(Tokens, TheDepartment, {})
    \/ DeleteDepartment(Tokens)
    \/ CreateServiceOrder(Tokens, SimpleCreateRequests, {})
    \/ DeleteServiceOrder(Tokens)
    \/ Delivered

SpecAuth == Init /\ [][NextAuth]_vars

\* bodies that create an order with one or two department entries, each with
\* collaborator 1
CollaboratorCreateRequests ==
    {r \in CreateRequests :
       /\ r.os_number # "" /\ r.service_days = <<1>> /\ r.departments # <<>>
       /\ \A i \in 1..Len(r.departments) : r.departments[i] = ValidEntry}

\* Orders with collaborators, created, updated and deleted
NextDelete ==
    \/ CreateEmployee({"valid"}, TheEmployee, {})
    \/ CreateServiceOrder({"valid"}, CollaboratorCreateRequests, {})
    \/ UpdateServiceOrder({"valid"}, UpdateRequests)
    \/ DeleteServiceOrder({"valid"})
    \/ ServiceOrdersDeleteServiceOrder({"valid"})
    \/ Delivered

SpecDelete == Init /\ [][NextDelete]_vars

\* Service days: Sunday, Saturday and the two values next to the range
Days == {-1, 0, 6, 7}

\* bodies with every list of service days, and one department entry that
\* needs no collaborator
DayRequests ==
    [os_number : OsNumbers, service_days : SeqsUpTo(Days, MaxDays),
     departments : {<<[ValidEntry EXCEPT !.collaborator_ids = <<>>]>>}]

NextDays ==
    \/ CreateServiceOrder({"valid"}, DayRequests, {})
    \/ Delivered

SpecDays == Init /\ [][NextDays]_vars

\* Time strings around every edge of the pattern: hours 00..39, the
\* separator, minutes 00..69, characters that are no digits, and strings
\* that are too short or too long
TimeStrings ==
    {<<h1, h2, c, m1, m2>> :
        h1 \in {"0", "1", "2", "3"}, h2 \in {"0", "3", "4", "9", ":"},
        c \in {":", "0"}, m1 \in {"0", "5", "6"}, m2 \in {"0", "9", ":"}}
      \cup {<<>>, <<"8", ":", "0", "0">>, <<"0", "8", ":", "0">>,
             <<"0", "8", ":", "0", "0", "0">>, <<"0", "8", ":", "0", "0", ":">>}

\* bodies for one os_number whose department entries carry those strings: one
\* entry with any execution_start or execution_end, or a valid entry
\* followed by one with a time the pattern may reject
TimeRequests ==
    LET entry == [ValidEntry EXCEPT !.collaborator_ids = <<>>]
    IN
    [os_number : {"OS-1"}, service_days : {<<1>>},
     departments :
        {<<[entry EXCEPT !.execution_start = t]>> : t \in TimeStrings}
          \cup {<<[entry EXCEPT !.execution_end = t]>> : t \in TimeStrings}
          \cup {<<entry, [entry EXCEPT !.execution_start = t]>> : t \in Times}
          \cup {<<entry, [entry EXCEPT !.execution_end = t]>> : t \in Times}]

NextTime ==
    \/ CreateServiceOrder({"valid"}, TimeRequests, {})
    \/ Delivered

SpecTime == Init /\ [][NextTime]_vars

\* Employee management, with one department that can be created and deleted
NextEmployee ==
    \/ CreateDepartment({"valid"}, TheDepartment, {})
    \/ CreateEmployee({"valid"}, EmployeeRequests, EmployeeFaults)
    \/ UpdateEmployee({"valid"}, UpdateEmployeeRequests)
    \/ DeleteEmployee({"valid"})
    \/ DeleteDepartment({"valid"})
    \/ Delivered

SpecEmployee == Init /\ [][NextEmployee]_vars

(**************** concurrent requests on the connection pool ***************)
\* createServiceOrder of os.controller.ts once more, one awaited call per
\* step, for requests that run concurrently.  Each request has passed the
\* body checks and asks for order `os_number` on day 1 with one department
\* entry (department 1, 08:00-08:00, no collaborators).  A transaction reads
\* the committed tables and its own pending rows (a consistent read does not
\* see what other transactions have not committed).
At(p, pc) == inflight[p].pc = pc

Goto(p, pc) == [inflight EXCEPT ![p].pc = pc]

\* an order with this os_number is committed / pending in another transaction
Committed(n) == \E o \in db.service_orders : o.os_number = n

PendingElsewhere(p, n) ==
    \E q \in Clients \ {p} : \E o \in inflight[q].pending.service_orders : o.os_number = n

\* the request arrives (lines 30-53: the body checks pass)
Arrive(p) ==
    /\ At(p, "idle")
    /\ \E n \in OsNumbers \ {""} :
          inflight' = [inflight EXCEPT ![p].pc = "getConnection", ![p].os_number = n]
    /\ UNCHANGED <<db, seq, last, pool, schema>>

\* line 57: pool.getConnection() waits while the pool has no free connection
GetConnection(p) ==
    /\ At(p, "getConnection")
    /\ pool > 0
    /\ pool' = pool - 1
    /\ inflight' = [inflight EXCEPT ![p].pc = "beginTransaction", ![p].conns = 1]
    /\ UNCHANGED <<db, seq, last, schema>>

\* lines 60-66: beginTransaction; the departments list is not empty
BeginTransaction(p) ==
    /\ At(p, "beginTransaction")
    /\ inflight' = Goto(p, "SELECT service_orders")
    /\ UNCHANGED <<db, seq, last, pool, schema>>

\* lines 69-77: the existence check; 409 after a rollback when a committed
\* order has the os_number
SelectExisting(p) ==
    /\ At(p, "SELECT service_orders")
    /\ inflight' = IF Committed(inflight[p].os_number)
               THEN [inflight EXCEPT ![p].pc = "release", ![p].status = 409,
                                 ![p].msg = "Numero de OS ja existe"]
               ELSE Goto(p, "INSERT service_orders")
    /\ UNCHANGED <<db, seq, last, pool, schema>>

\* lines 80-84: INSERT INTO service_orders.  With a unique index on os_number
\* the statement waits for a transaction that holds a pending row with the
\* same os_number and fails with ER_DUP_ENTRY when such a row is committed:
\* the catch block (lines 132-137) rolls back and answers 500.
InsertOrder(p) ==
    /\ At(p, "INSERT service_orders")
    /\ schema.unique_os_number => ~PendingElsewhere(p, inflight[p].os_number)
    /\ IF schema.unique_os_number /\ Committed(inflight[p].os_number)
       THEN /\ inflight' = [inflight EXCEPT ![p].pc = "release", ![p].status = 500,
                                    ![p].msg = "Erro ao criar ordem de servico"]
            /\ seq' = seq
       ELSE /\ seq' = [seq EXCEPT !.service_orders = @ + 1]
            /\ inflight' = [inflight EXCEPT
                          ![p].pc = "INSERT os_departments",
                          ![p].pending.service_orders =
                             {[id |-> seq.service_orders + 1,
                               os_number |-> inflight[p].os_number]}]
    /\ UNCHANGED <<db, last, pool, schema>>

\* lines 87-127: the service day and the department entry
InsertChildren(p) ==
    /\ At(p, "INSERT os_departments")
    /\ seq' = [seq EXCEPT !.os_departments = @ + 1]
    /\ \E o \in inflight[p].pending.service_orders :
          inflight' = [inflight EXCEPT
                     ![p].pc = "commit",
                     ![p].pending.os_service_days = {[os_id |-> o.id, day_of_week |-> 1]},
                     ![p].pending.os_departments =
                        {[id |-> seq.os_departments + 1, os_id |-> o.id,
                          department_id |-> 1, execution_start |-> T0800,
                          execution_end |-> T0800]}]
    /\ UNCHANGED <<db, last, pool, schema>>

\* line 129: connection.commit()
Commit(p) ==
    /\ At(p, "commit")
    /\ db' = [t \in DOMAIN db |->
                IF t \in DOMAIN inflight[p].pending THEN db[t] \cup inflight[p].pending[t]
                ELSE db[t]]
    /\ inflight' = [inflight EXCEPT
                  ![p].pc = "getOSDetails",
                  ![p].pending = NotArrived.pending]
    /\ UNCHANGED <<seq, last, pool, schema>>

\* lines 130, 150-152: getOSDetails asks the pool for a second connection
\* while the request still holds its own
GetOSDetailsConnection(p) ==
    /\ At(p, "getOSDetails")
    /\ pool > 0
    /\ pool' = pool - 1
    /\ inflight' = [inflight EXCEPT ![p].pc = "getOSDetails SELECT", ![p].conns = 2]
    /\ UNCHANGED <<db, seq, last, schema>>

\* lines 153-190, 130: the SELECTs, the release of the second connection,
\* and the 201 answer
ReturnOSDetails(p) ==
    /\ At(p, "getOSDetails SELECT")
    /\ pool' = pool + 1
    /\ inflight' = [inflight EXCEPT ![p].pc = "release", ![p].conns = 1,
                            ![p].status = 201, ![p].msg = "created"]
    /\ UNCHANGED <<db, seq, last, schema>>

\* line 139: finally connection.release()
Release(p) ==
    /\ At(p, "release")
    /\ pool' = pool + 1
    /\ inflight' = [inflight EXCEPT ![p].pc = "done", ![p].conns = 0]
    /\ UNCHANGED <<db, seq, last, schema>>

\* the schema is not part of the sources: os_number with and without a
\* unique index
InitPool ==
    /\ db = EmptyDb
    /\ seq = EmptySeq
    /\ last = Idle
    /\ pool = PoolSize
    /\ inflight = [p \in Clients |-> NotArrived]
    /\ schema \in [unique_os_number : BOOLEAN]

NextPool ==
    \E p \in Clients :
        \/ Arrive(p)
        \/ GetConnection(p)
        \/ BeginTransaction(p)
        \/ SelectExisting(p)
        \/ InsertOrder(p)
        \/ InsertChildren(p)
        \/ Commit(p)
        \/ GetOSDetailsConnection(p)
        \/ ReturnOSDetails(p)
        \/ Release(p)

SpecPool == InitPool /\ [][NextPool]_vars

(****************************** properties *********************************)
\* the rows a createServiceOrder request asks for, given the counters before
\* it: the order, one row per distinct day, one per department entry, one per
\* collaborator of each entry
RequestedOrder(req, sq) ==
    [service_orders |-> {[id |-> sq.service_orders + 1, os_number |-> req.os_number]},
     os_service_days |->
        {[os_id |-> sq.service_orders + 1, day_of_week |-> req.service_days[i]] :
           i \in 1..Len(req.service_days)},
     os_departments |->
        {[id |-> sq.os_departments + i, os_id |-> sq.service_orders + 1,
          department_id |-> req.departments[i].department_id,
          execution_start |-> req.departments[i].execution_start,
          execution_end |-> req.departments[i].execution_end] :
           i \in 1..Len(req.departments)},
     os_collaborators |->
        UNION {{[os_department_id |-> sq.os_departments + i,
                 collaborator_id |-> req.departments[i].collaborator_ids[j]] :
                  j \in 1..Len(req.departments[i].collaborator_ids)} :
                 i \in 1..Len(req.departments)}]

OrderTables == {"service_orders", "os_service_days", "os_departments", "os_collaborators"}

\* the tables are those before the request plus every requested row
AllWritten(before, after, req, sq) ==
    /\ \A t \in OrderTables : after[t] = before[t] \cup RequestedOrder(req, sq)[t]
    /\ \A t \in DOMAIN after \ OrderTables : after[t] = before[t]

AfterCreate == last.op = "createServiceOrder"

\* C1: createServiceOrder is all-or-nothing: when the request has finished,
\* the committed tables hold either every row the request asked for (order,
\* service days, departments, collaborators) or no row written by it.
C1_AllOrNothing ==
    AfterCreate =>
        \/ db = last.before
        \/ AllWritten(last.before, db, last.req, last.seqBefore)

\* C1 witness: the second department's collaborator check failed after the
\* order, its days, both os_departments rows and the first department's
\* collaborators had been inserted; nothing of it is left.
C1_Witness ==
    /\ AfterCreate
    /\ last.status = 400
    /\ last.msg = "Colaborador(es) invalido(s)"
    /\ Len(last.req.departments) = 2
    /\ \E i \in 1..Len(last.log) : last.log[i] = "INSERT os_collaborators"
    /\ db = last.before

\* C2 (as claimed): an error answer of createServiceOrder (400, 409 or 500)
\* means the request committed nothing.
C2_ErrorMeansNothingCommitted ==
    (last.op \in {"createServiceOrder", "serviceOrders_createServiceOrder"}
       /\ last.status \in {400, 409, 500})
      => db = last.before

MissingDepartments(req, before) ==
    {req.departments[i].department_id : i \in 1..Len(req.departments)}
      \ {x.id : x \in before.departments}

\* C3 (as claimed): a create request that names a department that does not
\* exist is rejected and commits no os_departments row.
C3_MissingDepartmentRejected ==
    (last.op \in {"createServiceOrder", "serviceOrders_createServiceOrder"}
       /\ last.req.os_number # ""
       /\ MissingDepartments(last.req, last.before) # {})
      => /\ last.status \in {400, 409, 500}
         /\ db.os_departments = last.before.os_departments

\* C4 (as claimed): createServiceOrder answers 400 'Colaborador(es)
\* invalido(s)' only when some collaborator id of the request refers to no
\* employee, whatever the collaborator_ids lists (repeated ids included).
C4_RejectedOnlyIfCollaboratorMissing ==
    (AfterCreate /\ last.msg = "Colaborador(es) invalido(s)")
      => \E i \in 1..Len(last.req.departments) :
            \E cId \in Range(last.req.departments[i].collaborator_ids) :
               cId \notin {e.id : e \in last.before.employees}

IsCheck(e) ==
    e \in {"check body", "check departments", "check os_number", "check time",
           "check collaborators"}

IsInsert(e) ==
    e \in {"INSERT service_orders", "INSERT os_service_days", "INSERT os_departments",
           "INSERT os_collaborators"}

Ids(rows) == {x.id : x \in rows}

AfterUpdate == last.op = "updateServiceOrder"

\* C6 (as claimed): updateServiceOrder inserts os_departments rows only when
\* the order with the given id exists and every department id of the request
\* refers to an existing department.
C6_UpdateValidatesForeignKeys ==
    (AfterUpdate /\ db.os_departments \ last.before.os_departments # {})
      => /\ last.id \in Ids(last.before.service_orders)
         /\ \A r \in db.os_departments \ last.before.os_departments :
               r.department_id \in Ids(last.before.departments)

\* C7 (as claimed): a request without a valid token is answered 401 and
\* reaches neither the controller nor the database.
C7_UnauthenticatedIsRejected ==
    (last.op # "none" /\ last.tok # "valid")
      => last.status = 401 /\ ~last.reached /\ db = last.before

\* C8 (as claimed): every service order has at least one os_departments row.
C8_EveryOrderHasADepartment ==
    \A o \in db.service_orders : \E r \in db.os_departments : r.os_id = o.id

\* the tables an updateServiceOrder request asks for: the order's os_number
\* replaced when the body names one, the order's os_departments rows replaced
\* by one row per id of the body's `departments` array when it has one
UpdatedTables(before, sq, id, req) ==
    [before EXCEPT
       !.service_orders =
          IF req.os_number = "" THEN @
          ELSE {o \in @ : o.id # id}
                 \cup {[id |-> id, os_number |-> req.os_number] : o \in {x \in @ : x.id = id}},
       !.os_departments =
          IF ~req.has_departments THEN @
          ELSE {r \in @ : r.os_id # id}
                 \cup {[id |-> sq.os_departments + i, os_id |-> id,
                        department_id |-> req.departments[i],
                        execution_start |-> NULL, execution_end |-> NULL] :
                         i \in 1..Len(req.departments)}]

\* C9: updateServiceOrder is atomic: the update of the order's fields, the
\* deletion of its os_departments rows and the insertion of the replacement
\* rows are all committed (200), or none is and the answer is 500.
C9_UpdateIsAtomic ==
    AfterUpdate =>
        \/ /\ last.status = 200
           /\ db = UpdatedTables(last.before, last.seqBefore, last.id, last.req)
        \/ /\ last.status = 500
           /\ db = last.before

\* C9 witness: the INSERT (or the commit) failed after the order's os_number
\* was updated and its os_departments rows were deleted; all of it is undone.
C9_Witness ==
    /\ AfterUpdate
    /\ last.status = 500
    /\ \E i \in 1..Len(last.log) : last.log[i] = "UPDATE service_orders"
    /\ \E i \in 1..Len(last.log) : last.log[i] = "DELETE os_departments"
    /\ \E o \in last.before.service_orders :
          o.id = last.id /\ o.os_number # last.req.os_number
    /\ \E r \in last.before.os_departments : r.os_id = last.id
    /\ db = last.before

\* C10 (as claimed): createDepartment answers 409 and inserts nothing when a
\* department with the same name or the same production_order exists, so no
\* two departments share a name or a production_order.
C10_NameAndProductionOrderUnique ==
    /\ (last.op = "createDepartment" /\ last.req.name # ""
          /\ \E x \in last.before.departments :
                \/ x.name = last.req.name
                \/ x.production_order = last.req.production_order)
         => last.status \in {409, 500} /\ db = last.before
    /\ \A x, y \in db.departments :
          x.id # y.id => x.name # y.name /\ x.production_order # y.production_order

\* the departments that existed and were deleted: ids are never handed out
\* twice, so these are the allocated ids with no row left
RemovedDepartments == {i \in 1..seq.departments : i \notin Ids(db.departments)}

\* what deleteDepartment answers, and does, when no database call rejects
DeleteDepartmentContract ==
    (last.op = "deleteDepartment" /\ last.status # 500) =>
        LET referenced ==
              \E r \in last.before.employee_departments \cup last.before.os_departments :
                 r.department_id = last.id
            exists == last.id \in Ids(last.before.departments)
        IN
        /\ referenced => last.status = 400 /\ db = last.before
        /\ (~referenced /\ ~exists) => last.status = 404 /\ db = last.before
        /\ (~referenced /\ exists)
             => /\ last.status = 204
                /\ db = [last.before EXCEPT
                           !.departments = {x \in @ : x.id # last.id}]

\* C11 (as claimed): deleteDepartment answers 400 for a referenced department,
\* 404 for a missing one and 204 after deleting exactly the department
\* otherwise; hence no employee_departments or os_departments row ever
\* references a department that deleteDepartment removed.
C11_RemovedDepartmentNeverReferenced ==
    /\ DeleteDepartmentContract
    /\ \A r \in db.employee_departments \cup db.os_departments :
          r.department_id \notin RemovedDepartments

Finished(p) == inflight[p].pc = "done"

\* C12 (as claimed): of two concurrent createServiceOrder requests with the
\* same os_number at most one commits, the other is answered 409 (not 500),
\* and at most one service_orders row has the os_number.
C12_OneCommitsOtherGets409 ==
    /\ \A p, q \in Clients :
          (p # q /\ Finished(p) /\ Finished(q)
             /\ inflight[p].os_number = inflight[q].os_number)
            => /\ ~(inflight[p].status = 201 /\ inflight[q].status = 201)
               /\ inflight[p].status \in {201, 409}
               /\ inflight[q].status \in {201, 409}
    /\ \A x, y \in db.service_orders : x.os_number = y.os_number => x.id = y.id

InFlight == {p \in Clients : ~At(p, "idle") /\ ~Finished(p)}

\* the request cannot take its next step: it waits for a connection of an
\* exhausted pool, or for the row lock of another transaction
Waits(p) ==
    \/ (At(p, "getConnection") \/ At(p, "getOSDetails")) /\ pool = 0
    \/ /\ At(p, "INSERT service_orders")
       /\ schema.unique_os_number
       /\ PendingElsewhere(p, inflight[p].os_number)

\* C15 (as claimed): with a pool of PoolSize connections that blocks when
\* exhausted, concurrent createServiceOrder requests all complete: the
\* requests in flight are never all waiting, each for a connection that only
\* another waiting request could give back.
C15_SomeRequestCanProceed ==
    InFlight # {} => \E p \in InFlight : ~Waits(p)

\* C13 (as claimed): every transaction a controller begins is ended by a
\* commit or a rollback before the connection is released, on every path
\* (the 409 and 404 early returns of createDepartment and updateDepartment
\* included): no connection goes back to the pool with an open transaction.
C13_NoOpenTransactionAtRelease ==
    last.op # "none" => ~last.txAtRelease

\* C14 (as claimed): every connection a controller obtains from the pool is
\* released exactly once before the request ends, on every path (a failing
\* beginTransaction of updateEmployee included).
C14_ReleasedExactlyOnce ==
    last.op # "none" => last.released = last.acquired

\* C16 (as claimed): every request a controller handles produces exactly one
\* response: no handler answers twice, or passes the error to next() and
\* answers as well, and none finishes without answering.
C16_ExactlyOneResponse ==
    last.op # "none" => last.sent = 1

\* a body the checks of lines 42-50 reject
BadBody(req) ==
    \/ req.os_number = ""
    \/ req.service_days = <<>>
    \/ \E i \in 1..Len(req.service_days) : req.service_days[i] \notin 0..6

\* C17: createServiceOrder answers 400, without asking for a connection, a
\* body with no os_number, with no or an empty service_days, or with a day
\* outside 0..6; the days it inserts are the distinct days of the body, each
\* once; so every os_service_days row has day_of_week in 0..6 and the INSERT
\* names no day twice for the order.
C17_ServiceDaysValidated ==
    /\ AfterCreate =>
          LET days == last.insertedDays
          IN
          /\ BadBody(last.req)
               => /\ last.status = 400
                  /\ last.acquired = 0
                  /\ last.log = <<"check body">>
                  /\ db = last.before /\ seq = last.seqBefore
          /\ \A i \in 1..Len(days) :
                /\ days[i] \in 0..6
                /\ \A j \in 1..Len(days) : j # i => days[j] # days[i]
          /\ days # <<>> => Range(days) = Range(last.req.service_days)
          /\ db.os_service_days \ last.before.os_service_days
               \subseteq {[os_id |-> last.seqBefore.service_orders + 1, day_of_week |-> day] :
                            day \in Range(days)}
          /\ last.status = 201
               => Cardinality(db.os_service_days \ last.before.os_service_days)
                     = Len(days)
    /\ \A x \in db.os_service_days : x.day_of_week \in 0..6

\* C17 witness: an order created from a list that names Sunday twice and
\* Saturday once; two rows were written
C17_Witness ==
    /\ AfterCreate
    /\ last.status = 201
    /\ Len(last.req.service_days) = 3
    /\ last.insertedDays = <<0, 6>>
    /\ Cardinality(db.os_service_days \ last.before.os_service_days) = 2

\* the value of a decimal digit
DigitValue(ch) == CHOOSE n \in 0..9 : ToString(n) = ch

\* a string of the form HH:MM with HH in 00..23 and MM in 00..59
IsHHMM(time) ==
    /\ Len(time) = 5
    /\ time[3] = ":"
    /\ \A i \in {1, 2, 4, 5} : time[i] \in {ToString(n) : n \in 0..9}
    /\ 10 * DigitValue(time[1]) + DigitValue(time[2]) \in 0..23
    /\ 10 * DigitValue(time[4]) + DigitValue(time[5]) \in 0..59

\* the request reaches the loop over its departments: the body is accepted
\* and no committed order has its os_number
ReachesDepartments ==
    /\ AfterCreate
    /\ ~BadBody(last.req)
    /\ last.req.departments # <<>>
    /\ ~\E o \in last.before.service_orders : o.os_number = last.req.os_number

\* C18: isValidTime accepts exactly the strings HH:MM with HH in 00..23 and MM
\* in 00..59; createServiceOrder answers 400 and rolls back, leaving nothing
\* of the order, when a department's execution_start or execution_end is not
\* accepted; so every os_departments row it commits has both times in that
\* format.
C18_TimesValidated ==
    /\ AfterCreate =>
          \A i \in 1..Len(last.req.departments) :
             LET dept == last.req.departments[i]
             IN /\ isValidTime(dept.execution_start) <=> IsHHMM(dept.execution_start)
                /\ isValidTime(dept.execution_end) <=> IsHHMM(dept.execution_end)
    /\ (ReachesDepartments
          /\ \E i \in 1..Len(last.req.departments) :
                \/ ~IsHHMM(last.req.departments[i].execution_start)
                \/ ~IsHHMM(last.req.departments[i].execution_end))
         => /\ last.status = 400
            /\ last.msg = "Formato de horario invalido"
            /\ last.log[Len(last.log)] = "rollback"
            /\ db = last.before
    /\ \A r \in db.os_departments :
          IsHHMM(r.execution_start) /\ IsHHMM(r.execution_end)

\* C18 witness: the second department's time is rejected after the order, its
\* day and the first department were inserted; none of them is left
C18_Witness ==
    /\ ReachesDepartments
    /\ Len(last.req.departments) = 2
    /\ last.status = 400
    /\ last.msg = "Formato de horario invalido"
    /\ \E i \in 1..Len(last.log) : last.log[i] = "INSERT os_departments"
    /\ db = last.before

AfterDelete == last.op = "deleteServiceOrder"

\* the tables without the order `id`: its collaborators (the rows of its
\* os_departments rows), its departments, its service days and the order
WithoutOrder(tables, id) ==
    LET departmentIds == {r.id : r \in {x \in tables.os_departments : x.os_id = id}}
    IN
    [tables EXCEPT
       !.os_collaborators = {x \in @ : x.os_department_id \notin departmentIds},
       !.os_departments = {x \in @ : x.os_id # id},
       !.os_service_days = {x \in @ : x.os_id # id},
       !.service_orders = {x \in @ : x.id # id}]

\* the statements of a successful delete, in their order
DeleteStatements(tables, id) ==
    <<"beginTransaction">>
      \o (IF \E x \in tables.os_departments : x.os_id = id
          THEN <<"DELETE os_collaborators">> ELSE <<>>)
      \o <<"DELETE os_departments", "DELETE os_service_days",
           "DELETE service_orders", "commit">>

\* C19: deleteServiceOrder of os.controller, on an existing id, removes in one
\* transaction (collaborators, departments, service days, order, in that
\* order) every row of the order and the order, leaves the rows of other
\* orders unchanged and answers 200, or changes nothing when a statement
\* fails (500); on an id that does not exist it answers 404 and changes
\* nothing, as a second delete of the same id therefore does.
C19_DeleteRemovesTheOrder ==
    AfterDelete =>
        LET exists == last.id \in Ids(last.before.service_orders)
        IN
        /\ last.status \in {200, 404, 500}
        /\ last.status = 200
             <=> (exists /\ db = WithoutOrder(last.before, last.id)
                    /\ last.log = DeleteStatements(last.before, last.id))
        /\ last.status = 200 => last.id \notin Ids(db.service_orders)
        /\ last.status = 404 => ~exists
        /\ last.status # 200 => db = last.before
        /\ ~exists => last.status \in {404, 500}

\* C19 witness: an order with a department and a collaborator was deleted
\* while another order with a department and a collaborator stays
C19_Witness ==
    /\ AfterDelete
    /\ last.status = 200
    /\ \E x \in last.before.os_collaborators :
          \E r \in last.before.os_departments :
             r.os_id = last.id /\ x.os_department_id = r.id
    /\ db.os_collaborators # {}
    /\ db.os_departments # {}
    /\ db.service_orders # {}
    /\ db.os_collaborators # last.before.os_collaborators

\* C20 (as claimed): after any sequence of createServiceOrder,
\* updateServiceOrder and deleteServiceOrder requests every os_collaborators
\* row references an os_departments row that exists.
C20_CollaboratorsReferenceDepartments ==
    \A x \in db.os_collaborators :
       \E r \in db.os_departments : r.id = x.os_department_id

\* C21 (as claimed): deleteEmployee is all-or-nothing: when the request has
\* finished, the employee row and all its employee_departments rows are gone
\* (204), or a statement failed (500) and both are unchanged.
C21_DeleteEmployeeAllOrNothing ==
    last.op = "deleteEmployee" =>
        \/ /\ last.status = 204
           /\ db = [last.before EXCEPT
                      !.employees = {e \in @ : e.id # last.id},
                      !.employee_departments = {r \in @ : r.employee_id # last.id}]
        \/ /\ last.status = 500
           /\ db = last.before

\* the listed departments that do not exist, as the 400 answer lists them
ListedButMissing(req, before) ==
    SelectSeq(req.departments, LAMBDA x : x \notin Ids(before.departments))

====
